---- MODULE Spec2Model ----
(***************************************************************************)
(* Model of src/aws/s3_client.py: class S3Client, a wrapper over the boto3 *)
(* S3 client.  The state is the remote service (buckets -> key -> bytes),  *)
(* the client handle built by __init__, and the record of the call the     *)
(* caller made last (what it returned or raised, and what it logged).      *)
(* delete_directory is split at its SDK calls (one listing, then one       *)
(* delete per listed key) so that another actor can interleave.            *)
(*                                                                         *)
(* Keys and prefixes are sequences of one-character strings, so that       *)
(* startswith / endswith / += "/" are computed, not assumed.               *)
(* Assumptions about the environment, stated once: the client is built     *)
(* with a region the service accepts as a LocationConstraint, and "AK" /   *)
(* "SK" are the one key pair the service accepts.                          *)
(***************************************************************************)
EXTENDS Integers, Sequences, FiniteSets, TLC

VARIABLES
    store,    \* the service: [existing bucket -> [existing key -> bytes]]
    client,   \* the S3Client object: "none" before __init__, else what self.s3 holds
    pc,       \* "idle", or "deleting" inside delete_directory's for loop
    pending,  \* delete_directory: listed keys not yet deleted
    ret,      \* the last call of the caller: arguments, outcome, log lines
    touched   \* history: another actor wrote since delete_directory's listing

vars == <<store, client, pc, pending, ret, touched>>

-----------------------------------------------------------------------------
(* Bounds and input universes *)

\* objects the service holds at most, over all buckets
MaxObjects == 3
\* keys one list_objects_v2 response holds at most (the service's page: 1000
\* keys on S3; scaled down here, always below MaxObjects)
PageSize == 2

BucketNames == {"b1", "b2"}

\* "a" plays the directory name: a key equal to it, two keys under "a/", and
\* a key outside the directory that begins with the same letters ("ab")
Keys == { <<"a">>, <<"a", "/">>, <<"a", "/", "b">>, <<"a", "b">> }

Prefixes == { <<>>, <<"a">>, <<"a", "/">>, <<"a", "b">> }

\* the directories delete_directory is called with: everything, and the
\* directory "a" written without and with its separator
Directories == { <<>>, <<"a">>, <<"a", "/">> }

\* object bodies: byte strings
Bodies == { <<>>, <<123, 125>> }

\* what the other writer uploads
OtherBody == <<>>

\* local files upload_file can be pointed at; "nofile" does not exist
LocalFiles == [ f1 |-> <<123, 125>> ]
Paths == {"f1", "nofile"}

-----------------------------------------------------------------------------
(* Exceptions *)

NoExc == "None"
ClientErrors == { "ClientError:NoSuchBucket", "ClientError:NoSuchKey",
                  "ClientError:BucketAlreadyOwnedByYou",
                  "ClientError:BucketNotEmpty", "ClientError:InvalidAccessKeyId" }
CredentialErrors == { "NoCredentialsError", "PartialCredentialsError" }

\* a failure of a request that does not depend on its arguments: the endpoint
\* is unreachable (a BotoCoreError, not a ClientError).  It is drawn for the
\* requests of delete_directory, where its position in the sequence matters.
\* For the methods that are one request, the failures are those the state
\* produces, of both classes: a ClientError for a missing bucket or key, a
\* bucket that exists or is not empty, credentials the service does not know;
\* NoCredentialsError (not a ClientError) from a client built without any
Faults == { NoExc, "EndpointConnectionError" }

-----------------------------------------------------------------------------
(* Strings *)

StartsWith(s, p) ==
    /\ Len(p) <= Len(s)
    /\ \A i \in 1..Len(p) : s[i] = p[i]

EndsWith(s, c) == Len(s) > 0 /\ s[Len(s)] = c

Ord(c) == CASE c = "/" -> 47
            [] c = "a" -> 97
            [] c = "b" -> 98

\* UTF-8 binary order, the order list_objects_v2 returns keys in
LexLess(s, t) ==
    \E i \in 1..(Len(s) + 1) :
        /\ \A j \in 1..(i - 1) : j <= Len(t) /\ s[j] = t[j]
        /\ \/ i = Len(s) + 1 /\ Len(t) >= i
           \/ i <= Len(s) /\ i <= Len(t) /\ Ord(s[i]) < Ord(t[i])

RECURSIVE SortKeys(_)
SortKeys(S) ==
    IF S = {} THEN <<>>
    ELSE LET m == CHOOSE k \in S : \A o \in S \ {k} : LexLess(k, o)
         IN  <<m>> \o SortKeys(S \ {m})

Take(s, n) == IF Len(s) <= n THEN s ELSE SubSeq(s, 1, n)

Range(s) == { s[i] : i \in 1..Len(s) }

-----------------------------------------------------------------------------
(* The SDK (boto3 / botocore) and the service behind it.  Every call gives *)
(* a response record: exc (NoExc, or the exception the call raises), the   *)
(* store after the call, and the payload (body, keys, bucket names).       *)

Exceptions == ClientErrors \cup CredentialErrors
                \cup { "EndpointConnectionError", "FileNotFoundError",
                       "S3UploadFailedError", "ValueError" }

Resp(e, st, body, keys) ==
    [exc |-> e, store |-> st, body |-> body, keys |-> keys, names |-> <<>>]

\* what every request goes through before the service looks at its arguments:
\* signing (no credentials at all), the connection, authentication
Request(cl, fault) ==
    IF cl.creds = "absent" THEN "NoCredentialsError"
    ELSE IF fault = "EndpointConnectionError" THEN fault
    ELSE IF cl.creds = "empty" THEN "ClientError:InvalidAccessKeyId"
    ELSE fault

NumObjects(st) ==
    LET RECURSIVE Sum(_)
        Sum(B) == IF B = {} THEN 0
                  ELSE LET b == CHOOSE x \in B : TRUE
                       IN  Cardinality(DOMAIN st[b]) + Sum(B \ {b})
    IN  Sum(DOMAIN st)

PutKey(objs, k, body) ==
    [x \in (DOMAIN objs) \cup {k} |-> IF x = k THEN body ELSE objs[x]]

DropKey(objs, k) == [x \in (DOMAIN objs) \ {k} |-> objs[x]]

\* boto3.client("s3", aws_access_key_id=..., aws_secret_access_key=..., ...):
\* botocore builds Credentials from the two arguments when neither is None
\* (an empty string is not None), raises PartialCredentialsError when exactly
\* one is None, and otherwise asks the provider chain (environment, config
\* files), which may hold a pair, hold half a pair, or hold nothing; then the
\* endpoint URL is parsed.  Python's None is written "None".
Boto3Client(access, secret, endpoint, chain) ==
    LET creds ==
            IF access # "None" /\ secret # "None"
            THEN IF access = "" \/ secret = "" THEN "empty" ELSE "complete"
            ELSE IF chain = "pair" THEN "complete" ELSE "absent"
        e ==
            IF (access = "None") # (secret = "None") THEN "PartialCredentialsError"
            ELSE IF access = "None" /\ chain = "half" THEN "PartialCredentialsError"
            ELSE IF endpoint = "malformed" THEN "ValueError"
            ELSE NoExc
    IN  [exc |-> e, creds |-> IF e = NoExc THEN creds ELSE "none"]

\* s3.put_object(Bucket, Key, Body)
S3PutObject(st, cl, fault, b, k, body) ==
    LET e == Request(cl, fault) IN
    IF e # NoExc THEN Resp(e, st, <<>>, <<>>)
    ELSE IF b \notin DOMAIN st THEN Resp("ClientError:NoSuchBucket", st, <<>>, <<>>)
    ELSE Resp(NoExc, [st EXCEPT ![b] = PutKey(@, k, body)], <<>>, <<>>)

\* s3.upload_file(Filename, Bucket, Key): the file is opened before any
\* request, and boto3 turns the transfer's ClientError into S3UploadFailedError
S3UploadFile(st, cl, fault, path, b, k) ==
    IF path \notin DOMAIN LocalFiles THEN Resp("FileNotFoundError", st, <<>>, <<>>)
    ELSE LET r == S3PutObject(st, cl, fault, b, k, LocalFiles[path])
         IN  IF r.exc \in ClientErrors THEN [r EXCEPT !.exc = "S3UploadFailedError"]
             ELSE r

\* s3.get_object(Bucket, Key) and response["Body"].read()
S3GetObject(st, cl, fault, b, k) ==
    LET e == Request(cl, fault) IN
    IF e # NoExc THEN Resp(e, st, <<>>, <<>>)
    ELSE IF b \notin DOMAIN st THEN Resp("ClientError:NoSuchBucket", st, <<>>, <<>>)
    ELSE IF k \notin DOMAIN st[b] THEN Resp("ClientError:NoSuchKey", st, <<>>, <<>>)
    ELSE Resp(NoExc, st, st[b][k], <<>>)

\* s3.list_buckets(): response["Buckets"], names in the service's order
S3ListBuckets(st, cl, fault) ==
    LET e == Request(cl, fault) IN
    IF e # NoExc THEN Resp(e, st, <<>>, <<>>)
    ELSE [Resp(NoExc, st, <<>>, <<>>) EXCEPT !.names =
              IF "b1" \in DOMAIN st
              THEN IF "b2" \in DOMAIN st THEN <<"b1", "b2">> ELSE <<"b1">>
              ELSE IF "b2" \in DOMAIN st THEN <<"b2">> ELSE <<>>]

\* s3.list_objects_v2(Bucket, Prefix) with no MaxKeys and no ContinuationToken:
\* one page, the first PageSize matching keys in binary order; the response
\* has no "Contents" entry when nothing matches, read as [] by .get
S3ListObjectsV2(st, cl, fault, b, prefix) ==
    LET e == Request(cl, fault) IN
    IF e # NoExc THEN Resp(e, st, <<>>, <<>>)
    ELSE IF b \notin DOMAIN st THEN Resp("ClientError:NoSuchBucket", st, <<>>, <<>>)
    ELSE Resp(NoExc, st, <<>>,
              Take(SortKeys({k \in DOMAIN st[b] : StartsWith(k, prefix)}), PageSize))

\* s3.delete_object(Bucket, Key): the service answers 204 whether or not the
\* key exists
S3DeleteObject(st, cl, fault, b, k) ==
    LET e == Request(cl, fault) IN
    IF e # NoExc THEN Resp(e, st, <<>>, <<>>)
    ELSE IF b \notin DOMAIN st THEN Resp("ClientError:NoSuchBucket", st, <<>>, <<>>)
    ELSE Resp(NoExc, [st EXCEPT ![b] = DropKey(@, k)], <<>>, <<>>)

\* s3.create_bucket(Bucket, CreateBucketConfiguration)
S3CreateBucket(st, cl, fault, b) ==
    LET e == Request(cl, fault) IN
    IF e # NoExc THEN Resp(e, st, <<>>, <<>>)
    ELSE IF b \in DOMAIN st THEN Resp("ClientError:BucketAlreadyOwnedByYou", st, <<>>, <<>>)
    ELSE Resp(NoExc, [x \in (DOMAIN st) \cup {b} |-> IF x = b THEN <<>> ELSE st[x]],
              <<>>, <<>>)

\* s3.delete_bucket(Bucket)
S3DeleteBucket(st, cl, fault, b) ==
    LET e == Request(cl, fault) IN
    IF e # NoExc THEN Resp(e, st, <<>>, <<>>)
    ELSE IF b \notin DOMAIN st THEN Resp("ClientError:NoSuchBucket", st, <<>>, <<>>)
    ELSE IF DOMAIN st[b] # {} THEN Resp("ClientError:BucketNotEmpty", st, <<>>, <<>>)
    ELSE Resp(NoExc, [x \in (DOMAIN st) \ {b} |-> st[x]], <<>>, <<>>)

-----------------------------------------------------------------------------
(* S3Client's methods, as functions of the service state: what the method  *)
(* raises (exc), what the SDK call raised (raised), the error lines it     *)
(* logged, the store afterwards and the value returned.                    *)

\* try: ... except <catches> as e: logging.error(msg); raise e
Except(e, catches, msg) == IF e \in catches THEN <<msg>> ELSE <<>>

Outcome(r, log) ==
    [exc |-> r.exc, raised |-> r.exc, log |-> log,
     store |-> r.store, body |-> r.body, keys |-> r.keys, names |-> r.names]

S3Client_init(access, secret, endpoint, chain) ==
    LET r == Boto3Client(access, secret, endpoint, chain)
    IN  [exc |-> r.exc, raised |-> r.exc, creds |-> r.creds,
         log |-> Except(r.exc, CredentialErrors, "Credentials error")]

upload_file(st, cl, fault, path, b, k) ==
    LET r == S3UploadFile(st, cl, fault, path, b, k)
    IN  Outcome(r, Except(r.exc, Exceptions, "Upload failed"))

\* mutant: the bytes are not passed on
upload_file_from_bytes_NoBody(st, cl, fault, body, b, k) ==
    LET r == S3PutObject(st, cl, fault, b, k, <<>>)
    IN  Outcome(r, Except(r.exc, Exceptions, "Upload failed"))

upload_file_from_bytes(st, cl, fault, body, b, k) ==
    LET r == S3PutObject(st, cl, fault, b, k, body)
    IN  Outcome(r, Except(r.exc, Exceptions, "Upload failed"))

\* mutant: the exception is logged and swallowed, empty bytes are returned
get_file_content_Swallow(st, cl, fault, b, k) ==
    LET r == S3GetObject(st, cl, fault, b, k)
    IN  [Outcome(r, Except(r.exc, Exceptions, "Get file content failed"))
            EXCEPT !.exc = NoExc]

get_file_content(st, cl, fault, b, k) ==
    LET r == S3GetObject(st, cl, fault, b, k)
    IN  Outcome(r, Except(r.exc, Exceptions, "Get file content failed"))

list_buckets(st, cl, fault) ==
    LET r == S3ListBuckets(st, cl, fault)
    IN  Outcome(r, Except(r.exc, Exceptions, "List buckets failed"))

list_objects(st, cl, fault, b, prefix) ==
    LET r == S3ListObjectsV2(st, cl, fault, b, prefix)
    IN  Outcome(r, Except(r.exc, Exceptions, "List objects failed"))

\* mutant: a key that does not exist is refused
delete_object_MustExist(st, cl, fault, b, k) ==
    LET r == IF b \in DOMAIN st /\ k \notin DOMAIN st[b]
             THEN Resp("ClientError:NoSuchKey", st, <<>>, <<>>)
             ELSE S3DeleteObject(st, cl, fault, b, k)
    IN  Outcome(r, Except(r.exc, Exceptions, "Delete failed"))

delete_object(st, cl, fault, b, k) ==
    LET r == S3DeleteObject(st, cl, fault, b, k)
    IN  Outcome(r, Except(r.exc, Exceptions, "Delete failed"))

create_bucket(st, cl, fault, b) ==
    LET r == S3CreateBucket(st, cl, fault, b)
    IN  Outcome(r, Except(r.exc, ClientErrors, "Bucket creation failed"))

delete_bucket(st, cl, fault, b) ==
    LET r == S3DeleteBucket(st, cl, fault, b)
    IN  Outcome(r, Except(r.exc, ClientErrors, "Bucket deletion failed"))

\* mutant: no separator is appended
Normalize_AsGiven(directory) == directory

\* mutant: the separator is appended to a directory that has one
Normalize_Always(directory) ==
    IF directory # <<>> THEN Append(directory, "/") ELSE directory

\* delete_directory, line 217: if directory and not directory.endswith("/")
Normalize(directory) ==
    IF directory # <<>> /\ ~EndsWith(directory, "/")
    THEN Append(directory, "/")
    ELSE directory

\* delete_directory up to its listing
delete_directory_list(st, cl, fault, b, directory) ==
    LET r == list_objects(st, cl, fault, b, Normalize(directory))
    IN  [r EXCEPT !.log = @ \o Except(r.exc, Exceptions, "Directory deletion failed")]

\* mutant: a failed delete is logged and the loop goes on
delete_directory_delete_GoOn(st, cl, fault, b, obj_key) ==
    LET r == delete_object(st, cl, fault, b, obj_key)
    IN  [r EXCEPT !.exc = NoExc, !.raised = NoExc]

\* one turn of delete_directory's for loop
delete_directory_delete(st, cl, fault, b, obj_key) ==
    LET r == delete_object(st, cl, fault, b, obj_key)
    IN  [r EXCEPT !.log = @ \o Except(r.exc, Exceptions, "Directory deletion failed")]

\* delete_directory as one call, with no other actor: the failAt-th request
\* (the listing is the first) loses its connection, 0 for none
delete_directory(st, cl, b, directory, failAt) ==
    LET FaultAt(i) == IF i = failAt THEN "EndpointConnectionError" ELSE NoExc
        l == delete_directory_list(st, cl, FaultAt(1), b, directory)
        RECURSIVE Loop(_, _, _)
        Loop(s, i, dels) ==
            IF i > Len(l.keys)
            THEN [exc |-> NoExc, log |-> <<>>, store |-> s,
                  request |-> Normalize(directory), dels |-> dels]
            ELSE LET r == delete_directory_delete(s, cl, FaultAt(i + 1), b, l.keys[i])
                 IN  IF r.exc # NoExc
                     THEN [exc |-> r.exc, log |-> r.log, store |-> r.store,
                           request |-> Normalize(directory), dels |-> dels]
                     ELSE Loop(r.store, i + 1, Append(dels, l.keys[i]))
    IN  IF l.exc # NoExc
        THEN [exc |-> l.exc, log |-> l.log, store |-> l.store,
              request |-> Normalize(directory), dels |-> <<>>]
        ELSE Loop(l.store, 1, <<>>)

-----------------------------------------------------------------------------
(* The state machine *)

\* The record of a call.  op, bucket, key (a key, a prefix or a directory),
\* access, secret: the method and its arguments; fault: the connection failure
\* drawn for its last request; exc: what the caller got (NoExc: a normal
\* return); raised: what the SDK call raised; log: the logging.error lines;
\* body: the bytes sent or returned; keys: the keys returned (or
\* delete_directory's listing); names: the buckets returned; request: the Prefix delete_directory listed
\* with; dels: the keys it has deleted, in order.  Two fields look back:
\* held is <<bytes>> when the key of an upload or a delete_object held bytes
\* before the call (<<>> when it did not exist), sent is <<bytes>> when a
\* get_file_content directly follows a successful upload_file_from_bytes of
\* these bytes to the same bucket and key.
NoCall ==
    [op |-> "-", bucket |-> "-", key |-> <<>>, access |-> "-", secret |-> "-",
     fault |-> NoExc, exc |-> NoExc, raised |-> NoExc, log |-> <<>>,
     body |-> <<>>, keys |-> <<>>, names |-> <<>>, request |-> <<>>,
     dels |-> <<>>, held |-> <<>>, sent |-> <<>>]

Held(st, b, k) ==
    IF b \in DOMAIN st /\ k \in DOMAIN st[b] THEN <<st[b][k]>> ELSE <<>>

Sent(last, b, k) ==
    IF /\ last.op = "upload_file_from_bytes" /\ last.exc = NoExc
       /\ last.bucket = b /\ last.key = k
    THEN <<last.body>> ELSE <<>>

Call(op, b, k, fault, r) ==
    [NoCall EXCEPT !.op = op, !.bucket = b, !.key = k, !.fault = fault,
                   !.exc = r.exc, !.raised = r.raised, !.log = r.log,
                   !.body = r.body, !.keys = r.keys, !.names = r.names,
                   !.held = IF op \in {"upload_file", "upload_file_from_bytes",
                                       "delete_object"}
                            THEN Held(store, b, k) ELSE <<>>,
                   !.sent = IF op = "get_file_content"
                            THEN Sent(ret, b, k) ELSE <<>>]

Init ==
    /\ store = [b \in {"b1"} |-> <<>>]
    /\ client = [creds |-> "none"]
    /\ pc = "idle"
    /\ pending = <<>>
    /\ ret = NoCall
    /\ touched = FALSE

Ready == pc = "idle" /\ client.creds # "none"

\* a single call that is one SDK request
Finish(op, b, k, fault, r) ==
    /\ NumObjects(r.store) <= MaxObjects
    /\ store' = r.store
    /\ ret' = Call(op, b, k, fault, r)
    /\ touched' = FALSE
    /\ pending' = <<>>
    /\ UNCHANGED <<client, pc>>

Construct(access, secret, endpoint, chain) ==
    /\ pc = "idle" /\ client.creds = "none"
    /\ LET r == S3Client_init(access, secret, endpoint, chain) IN
       /\ client' = [creds |-> r.creds]
       /\ ret' = [NoCall EXCEPT !.op = "__init__", !.access = access,
                                !.secret = secret, !.exc = r.exc,
                                !.raised = r.raised, !.log = r.log]
    /\ UNCHANGED <<store, pc, pending, touched>>

UploadFile(path, b, k) ==
    /\ Ready
    /\ Finish("upload_file", b, k, NoExc, upload_file(store, client, NoExc, path, b, k))

UploadFileFromBytes(body, b, k) ==
    /\ Ready
    /\ LET r == upload_file_from_bytes(store, client, NoExc, body, b, k)
       IN  Finish("upload_file_from_bytes", b, k, NoExc, [r EXCEPT !.body = body])

GetFileContent(b, k) ==
    /\ Ready
    /\ Finish("get_file_content", b, k, NoExc, get_file_content(store, client, NoExc, b, k))

ListBuckets ==
    /\ Ready
    /\ Finish("list_buckets", "-", <<>>, NoExc, list_buckets(store, client, NoExc))

ListObjects(b, prefix) ==
    /\ Ready
    /\ Finish("list_objects", b, prefix, NoExc, list_objects(store, client, NoExc, b, prefix))

DeleteObject(b, k) ==
    /\ Ready
    /\ Finish("delete_object", b, k, NoExc, delete_object(store, client, NoExc, b, k))

CreateBucket(b) ==
    /\ Ready
    /\ Finish("create_bucket", b, <<>>, NoExc, create_bucket(store, client, NoExc, b))

DeleteBucket(b) ==
    /\ Ready
    /\ Finish("delete_bucket", b, <<>>, NoExc, delete_bucket(store, client, NoExc, b))

\* delete_directory, lines 215-221: normalise, list; a failed listing ends the call
DeleteDirectoryList(b, directory, fault) ==
    /\ Ready
    /\ LET r == delete_directory_list(store, client, fault, b, directory) IN
       /\ ret' = [Call("delete_directory", b, directory, fault, r)
                     EXCEPT !.request = Normalize(directory)]
       /\ pc' = IF r.exc = NoExc THEN "deleting" ELSE "idle"
       /\ pending' = r.keys
       /\ store' = r.store
    /\ touched' = FALSE
    /\ UNCHANGED client

\* mutant: the loop lists again before every delete
DeleteDirectoryDelete_Relist(fault) ==
    /\ pc = "deleting"
    /\ LET l == list_objects(store, client, NoExc, ret.bucket, ret.request).keys IN
       IF l = <<>>
       THEN /\ fault = NoExc
            /\ pc' = "idle"
            /\ pending' = <<>>
            /\ UNCHANGED <<store, ret>>
       ELSE LET r == delete_directory_delete(store, client, fault, ret.bucket, Head(l)) IN
            /\ store' = r.store
            /\ ret' = [ret EXCEPT !.fault = fault, !.exc = r.exc, !.raised = r.raised,
                                  !.log = r.log,
                                  !.dels = IF r.exc = NoExc THEN Append(@, Head(l)) ELSE @]
            /\ pending' = IF r.exc = NoExc THEN Tail(l) ELSE l
            /\ pc' = IF r.exc = NoExc THEN "deleting" ELSE "idle"
    /\ UNCHANGED <<client, touched>>

\* delete_directory, lines 224-230: the next key is deleted, or the loop is over
DeleteDirectoryDelete(fault) ==
    /\ pc = "deleting"
    /\ IF pending = <<>>
       THEN /\ fault = NoExc
            /\ pc' = "idle"
            /\ UNCHANGED <<store, pending, ret>>
       ELSE LET r == delete_directory_delete(store, client, fault, ret.bucket, Head(pending)) IN
            /\ store' = r.store
            /\ ret' = [ret EXCEPT !.fault = fault, !.exc = r.exc, !.raised = r.raised,
                                  !.log = r.log,
                                  !.dels = IF r.exc = NoExc THEN Append(@, Head(pending)) ELSE @]
            /\ pending' = IF r.exc = NoExc THEN Tail(pending) ELSE pending
            /\ pc' = IF r.exc = NoExc THEN "deleting" ELSE "idle"
    /\ UNCHANGED <<client, touched>>

\* another writer to the same prefix, while delete_directory is in its loop
OtherPut(k) ==
    /\ pc = "deleting" /\ ~touched
    /\ StartsWith(k, ret.request)
    /\ store' = [store EXCEPT ![ret.bucket] = PutKey(@, k, OtherBody)]
    /\ NumObjects(store') <= MaxObjects
    /\ touched' = TRUE
    /\ UNCHANGED <<client, pc, pending, ret>>

Credentials == {"None", "", "AK"}
Secrets == {"None", "", "SK"}

Next ==
    \/ \E access \in Credentials, secret \in Secrets,
          endpoint \in {"None", "malformed"}, chain \in {"pair", "half", "nothing"} :
          Construct(access, secret, endpoint, chain)
    \/ \E path \in Paths, b \in BucketNames, k \in Keys : UploadFile(path, b, k)
    \/ \E body \in Bodies, b \in BucketNames, k \in Keys : UploadFileFromBytes(body, b, k)
    \/ \E b \in BucketNames, k \in Keys : GetFileContent(b, k)
    \/ ListBuckets
    \/ \E b \in BucketNames, prefix \in Prefixes : ListObjects(b, prefix)
    \/ \E b \in BucketNames, k \in Keys : DeleteObject(b, k)
    \/ \E b \in BucketNames : CreateBucket(b)
    \/ \E b \in BucketNames : DeleteBucket(b)
    \/ \E b \in BucketNames, directory \in Directories, fault \in Faults :
          DeleteDirectoryList(b, directory, fault)
    \/ \E fault \in Faults : DeleteDirectoryDelete(fault)
    \/ \E k \in Keys : OtherPut(k)

Spec == Init /\ [][Next]_vars

-----------------------------------------------------------------------------
(* Claims *)

\* the prefix the specification gives for a directory d: d itself when d is
\* empty or ends with the separator, d + "/" otherwise
DirectoryPrefix(d) == IF d = <<>> \/ d[Len(d)] = "/" THEN d ELSE d \o <<"/">>

\* a step of delete_directory itself (not of the other writer)
DeleteDirectoryStep ==
    /\ ret'.op = "delete_directory"
    /\ \/ DeleteDirectoryList(ret'.bucket, ret'.key, ret'.fault)
       \/ DeleteDirectoryDelete(ret'.fault)

\* C1: when delete_directory(bucket, d) has returned normally and no other
\* actor has written meanwhile, no key of the bucket starts with d's prefix
\* (for d = "", the bucket is empty), however many objects the bucket held
C1_DirectoryIsEmptied ==
    (ret.op = "delete_directory" /\ pc = "idle" /\ ret.exc = NoExc /\ ~touched)
    => \A k \in DOMAIN store[ret.bucket] : ~StartsWith(k, DirectoryPrefix(ret.key))

\* C2: no step of delete_directory(bucket, d) removes, adds or alters an
\* object outside the directory: the buckets are the same, and every object
\* of another bucket, and every object of this bucket whose key does not
\* start with d's prefix, is there afterwards with the same bytes
C2_OutsideDirectoryUntouched ==
    [][ DeleteDirectoryStep =>
          /\ DOMAIN store' = DOMAIN store
          /\ \A b \in DOMAIN store :
                /\ DOMAIN store'[b] \subseteq DOMAIN store[b]
                /\ \A k \in DOMAIN store[b] :
                      (b # ret'.bucket \/ ~StartsWith(k, DirectoryPrefix(ret'.key)))
                      => k \in DOMAIN store'[b] /\ store'[b][k] = store[b][k] ]_vars

\* delete_directory("b1", "a") has returned, having deleted "a/" and "a/b",
\* and "ab" is still there
C2_Witness ==
    /\ ret.op = "delete_directory" /\ pc = "idle" /\ ret.exc = NoExc
    /\ ret.bucket = "b1" /\ ret.key = <<"a">>
    /\ ret.dels = << <<"a", "/">>, <<"a", "/", "b">> >>
    /\ DOMAIN store["b1"] = { <<"a", "b">> }

\* C3: from every state, for every non-empty p that does not end with "/",
\* delete_directory(bucket, p) and delete_directory(bucket, p + "/") send the
\* same listing request, delete the same keys in the same order, log the same
\* lines and end with the same store and the same outcome, wherever the
\* connection fails; and the listing a running call has just taken is the
\* one the other spelling of its directory gives
C3_TrailingSeparator ==
    /\ client.creds # "none" =>
          \A b \in BucketNames, f \in 0..(PageSize + 1) :
             \A p \in {q \in Prefixes : q # <<>> /\ q[Len(q)] # "/"} :
                delete_directory(store, client, b, p, f)
                   = delete_directory(store, client, b, p \o <<"/">>, f)
    /\ (ret.op = "delete_directory" /\ pc = "deleting" /\ ret.dels = <<>>
           /\ ~touched /\ ret.key # <<>>) =>
          LET d == ret.key
              other == IF d[Len(d)] = "/" THEN SubSeq(d, 1, Len(d) - 1)
                       ELSE d \o <<"/">>
              l == delete_directory_list(store, client, NoExc, ret.bucket, other)
          IN  l.exc = NoExc /\ l.keys = ret.keys /\ Normalize(other) = ret.request

\* delete_directory(b, "a") has listed two keys under "a/" in a bucket that
\* also holds "ab"
C3_Witness ==
    /\ ret.op = "delete_directory" /\ pc = "deleting" /\ ret.dels = <<>> /\ ~touched
    /\ ret.key = <<"a">> /\ Len(ret.keys) = 2
    /\ <<"a", "b">> \in DOMAIN store[ret.bucket]

\* C4: delete_directory does not roll back.  A failed listing ends the call
\* with that exception and deletes nothing.  A delete that succeeds removes
\* exactly the next listed key.  A delete that fails ends the call with that
\* exception, at once: the keys listed before the failing one are deleted,
\* the failing key and the keys after it are still there, nothing else has
\* changed.  A call that returns normally has deleted every listed key.
C4_NoRollback ==
    /\ [](ret.op = "delete_directory" /\ ret.raised = NoExc =>
             /\ ret.keys = ret.dels \o pending
             /\ ~touched =>
                   /\ \A k \in Range(ret.dels) : k \notin DOMAIN store[ret.bucket]
                   /\ \A k \in Range(pending) : k \in DOMAIN store[ret.bucket])
    /\ [](ret.op = "delete_directory" /\ pc = "idle" /\ ret.raised # NoExc =>
             /\ ret.exc = ret.raised
             /\ pending = <<>> => ret.dels = <<>>
             /\ pending # <<>> =>
                   /\ ret.keys = ret.dels \o pending
                   /\ ~touched =>
                         /\ \A k \in Range(ret.dels) : k \notin DOMAIN store[ret.bucket]
                         /\ \A k \in Range(pending) : k \in DOMAIN store[ret.bucket])
    /\ [][ DeleteDirectoryStep =>
             /\ pc = "idle" => store' = store
             /\ (pc = "deleting" /\ pending # <<>> /\ ret'.raised = NoExc) =>
                   /\ pc' = "deleting" /\ ret'.exc = NoExc
                   /\ DOMAIN store' = DOMAIN store
                   /\ \A b \in DOMAIN store :
                         store'[b] = IF b = ret.bucket
                                     THEN [k \in DOMAIN store[b] \ {Head(pending)}
                                             |-> store[b][k]]
                                     ELSE store[b]
             /\ ret'.raised # NoExc =>
                   /\ store' = store /\ pc' = "idle" /\ ret'.exc = ret'.raised
                   /\ pc = "idle" => ret'.dels = <<>>
                   /\ pc = "deleting" =>
                         /\ ret'.dels = ret.dels
                         /\ pending' = pending /\ pending # <<>> ]_vars

\* the second of two listed keys could not be deleted: the first is gone, the
\* second is still there, the call has raised
C4_Witness ==
    /\ ret.op = "delete_directory" /\ pc = "idle" /\ ~touched
    /\ ret.exc = "EndpointConnectionError"
    /\ Len(ret.dels) = 1 /\ Len(pending) = 1
    /\ ret.dels[1] \notin DOMAIN store[ret.bucket]
    /\ pending[1] \in DOMAIN store[ret.bucket]

\* C5: get_file_content(bucket, key) called right after a successful
\* upload_file_from_bytes(bytes, bucket, key) returns these bytes; a
\* successful upload leaves the key holding the uploaded bytes, whatever it
\* held before; and an object's bytes change only by an upload to or a
\* delete of its key (or by delete_directory and the writer racing with it)
C5_RoundTrip ==
    /\ []((ret.op = "get_file_content" /\ ret.sent # <<>>) =>
             ret.exc = NoExc /\ ret.body = ret.sent[1])
    /\ []((ret.op = "upload_file_from_bytes" /\ ret.exc = NoExc) =>
             /\ ret.bucket \in DOMAIN store
             /\ ret.key \in DOMAIN store[ret.bucket]
             /\ store[ret.bucket][ret.key] = ret.body)
    /\ [][ \A b \in DOMAIN store : \A k \in DOMAIN store[b] :
              \/ /\ b \in DOMAIN store' /\ k \in DOMAIN store'[b]
                 /\ store'[b][k] = store[b][k]
              \/ /\ ret'.bucket = b
                 /\ \/ ret'.op = "delete_directory"
                    \/ /\ ret'.key = k
                       /\ ret'.op \in {"upload_file", "upload_file_from_bytes",
                                       "delete_object"} ]_vars

\* a read right after an upload of {} (two bytes) returned them
C5_Witness ==
    /\ ret.op = "get_file_content" /\ ret.exc = NoExc
    /\ ret.sent = << <<123, 125>> >> /\ ret.body = <<123, 125>>

\* C6: list_objects(bucket, p) that returns, returns exactly the keys of the
\* bucket that start with p, however many there are
C6_ListingIsComplete ==
    (ret.op = "list_objects" /\ ret.exc = NoExc) =>
        Range(ret.keys) = {k \in DOMAIN store[ret.bucket] : StartsWith(k, ret.key)}

\* the error line each method logs
Message(op) ==
    CASE op = "__init__" -> "Credentials error"
      [] op \in {"upload_file", "upload_file_from_bytes"} -> "Upload failed"
      [] op = "get_file_content" -> "Get file content failed"
      [] op = "list_buckets" -> "List buckets failed"
      [] op = "list_objects" -> "List objects failed"
      [] op = "delete_object" -> "Delete failed"
      [] op = "create_bucket" -> "Bucket creation failed"
      [] op = "delete_bucket" -> "Bucket deletion failed"
      [] op = "delete_directory" -> "Directory deletion failed"
      [] OTHER -> "-"

\* C7, as stated: whatever the underlying call raises reaches the caller
\* unchanged and has been logged by the method
C7_EveryFailureLogged ==
    ret.raised # NoExc => ret.exc = ret.raised /\ ret.log # <<>>

\* the failures a method lets through without a log line
NotCaught(op, e) ==
    \/ op \in {"create_bucket", "delete_bucket"} /\ e \notin ClientErrors
    \/ op = "__init__" /\ e \notin CredentialErrors

\* C7, amended: whatever the underlying call raises reaches the caller
\* unchanged, and the method has logged it as its last error line, unless
\* the method is create_bucket or delete_bucket and the exception is not a
\* ClientError, or the method is the constructor and the exception is not a
\* credentials error: then nothing is logged.  Nothing is logged as an error
\* when nothing was raised.
C7_FailuresPropagate ==
    /\ ret.exc = ret.raised
    /\ ret.raised = NoExc => ret.log = <<>>
    /\ (ret.raised # NoExc /\ NotCaught(ret.op, ret.raised)) => ret.log = <<>>
    /\ (ret.raised # NoExc /\ ~NotCaught(ret.op, ret.raised)) =>
          ret.log # <<>> /\ ret.log[Len(ret.log)] = Message(ret.op)

\* delete_bucket raised something that is not a ClientError: the caller got
\* it, and nothing was logged
C7_Witness ==
    /\ ret.op = "delete_bucket" /\ ret.raised = "NoCredentialsError"
    /\ ret.exc = "NoCredentialsError" /\ ret.log = <<>>

\* C8: a constructor given an empty or missing secret key raises a
\* credentials error, and no client holds empty or absent credentials
C8_ConstructorRejectsMissingSecret ==
    /\ (ret.op = "__init__" /\ ret.secret \in {"None", ""}) =>
          ret.exc \in CredentialErrors
    /\ client.creds \notin {"empty", "absent"}

\* C9: delete_object on a key the bucket does not hold, in a bucket that
\* exists, with credentials the service accepts, returns normally and leaves
\* the store as it was; and delete_object repeated with the same arguments
\* has the outcome of the first call and leaves the store as the first left it
C9_DeleteIsIdempotent ==
    [][ (ret'.op = "delete_object" /\ DeleteObject(ret'.bucket, ret'.key)) =>
          /\ (/\ client.creds = "complete" /\ ret'.bucket \in DOMAIN store
              /\ ret'.key \notin DOMAIN store[ret'.bucket]) =>
                 ret'.exc = NoExc /\ store' = store
          /\ (ret.op = "delete_object" /\ ret.bucket = ret'.bucket
                 /\ ret.key = ret'.key) =>
                 ret'.exc = ret.exc /\ store' = store ]_vars

\* delete_object has returned normally for a key that did not exist, in a
\* bucket that holds other objects
C9_Witness ==
    /\ ret.op = "delete_object" /\ ret.exc = NoExc /\ ret.held = <<>>
    /\ DOMAIN store[ret.bucket] # {}

\* C10: delete_directory lists once: its listing and its request never
\* change while it runs, every key it removes is a key of that listing, and
\* the other writer's steps are not undone by it
C10_SingleListing ==
    /\ [](ret.op = "delete_directory" => Range(ret.dels) \subseteq Range(ret.keys))
    /\ [][ (ret'.op = "delete_directory" /\ pc = "deleting") =>
             /\ ret'.keys = ret.keys /\ ret'.request = ret.request
             /\ \A k \in DOMAIN store[ret.bucket] \ DOMAIN store'[ret.bucket] :
                   k \in Range(ret.keys) ]_vars

\* delete_directory has returned normally, its listing was not cut by the
\* page size, and a key written meanwhile is under its prefix
C10_Witness ==
    /\ ret.op = "delete_directory" /\ pc = "idle" /\ ret.exc = NoExc /\ touched
    /\ Len(ret.keys) < PageSize
    /\ \E k \in DOMAIN store[ret.bucket] :
          StartsWith(k, DirectoryPrefix(ret.key)) /\ k \notin Range(ret.keys)

====
